---------------------------- MODULE Spec2Model ----------------------------
(***************************************************************************)
(* A model of tfglib/seq2seq_datatable.py: the sequence scanner            *)
(* (find_longest_sequence), the pair builder (seq2seq_build_file_table),   *)
(* the corpus assembler (seq2seq_construct_datatable) and the datatable    *)
(* store (seq2seq_save_datatable, seq2seq2_load_datatable).                *)
(*                                                                         *)
(* Arrays are sequences of rows, a row is a sequence of numbers, indices   *)
(* start at 1.  Samples are integers standing for the floating-point       *)
(* values of the parameter files; every operation of the program on them   *)
(* (copy, compare, max, min) is exact on both.                             *)
(***************************************************************************)
EXTENDS Integers, Sequences, FiniteSets, TLC

(***************************************************************************)
(* Bounds of the model.                                                    *)
(***************************************************************************)
\* Longest parameter stream, in frames, of the generated corpora.
MaxFrames == 2
\* Longest speakers list.
MaxSpeakers == 2
\* Longest basenames list.
MaxBasenames == 1
\* Width of the spectral (mcp) stream: 40 in the source, scaled down here.
\* The statistics cover McpWidth + 2 columns (the source's 42 = 40 + 2).
McpWidth == 1

(***************************************************************************)
(* Program constants.                                                      *)
(***************************************************************************)
\* nb_classes of the one-hot speaker index.
NbClasses == 10
\* Rows of the statistics matrices, np.zeros((10, 42)).
SpkRows == 10
\* Seed of the minimum matrix, 1e+50 in the source: a value above every
\* sample and above numpy's masked fill value.
SpkMinSeed == 1000000
\* Seed of the maximum matrix, np.zeros.
SpkMaxSeed == 0
\* numpy.ma's default fill_value for floats (1e+20): what a fully masked
\* column reduces to.  Below the minimum seed, above every sample.
MaFillValue == SpkMinSeed \div 1000

\* The columns the statistics cover: aux_src_params[:, 0:42].
StatCols == McpWidth + 2
\* Columns of a source row and of a target row (65 and 44 in the source).
SrcCols == McpWidth + 4 + NbClasses + NbClasses
TrgCols == McpWidth + 4
\* Column of the voiced flag and of the end-of-sequence flag.
VoicedCol == McpWidth + 3
EosCol == McpWidth + 4

(***************************************************************************)
(* numpy primitives.                                                       *)
(***************************************************************************)
Zeros(n, w) == [r \in 1..n |-> [c \in 1..w |-> 0]]

Ones(n, w) == [r \in 1..n |-> [c \in 1..w |-> 1]]

\* x.shape of an array parsed with the given width.
Shape(x, w) == <<Len(x), w>>

Max2(a, b) == IF a >= b THEN a ELSE b

Min2(a, b) == IF a <= b THEN a ELSE b

\* np.maximum / np.minimum of two rows, elementwise.
Maximum(x, y) == [c \in 1..Len(x) |-> Max2(x[c], y[c])]

Minimum(x, y) == [c \in 1..Len(x) |-> Min2(x[c], y[c])]

(***************************************************************************)
(* Collaborators of the pair builder that live in other modules of tfglib  *)
(* (construct_table.parse_file, utils.kronecker_delta,                     *)
(* zero_pad.zero_pad_params) and keras' to_categorical.                    *)
(***************************************************************************)
\* parse_file(width, path): the frames x width array held by the file.
\* A corpus file is a record of its five streams; the path selects one.
parse_file(file, stream) == file[stream]

\* kronecker_delta(x): the indicator that x is exactly zero.
kronecker_delta(x) == IF x = 0 THEN 1 ELSE 0

\* zero_pad_params(max_length, mode, params): params extended to max_length
\* rows with zero rows, in front for 'src' and behind for 'trg'.
zero_pad_params(max_length, mode, params, w) ==
    IF mode = "src"
    THEN Zeros(max_length - Len(params), w) \o params
    ELSE params \o Zeros(max_length - Len(params), w)

\* to_categorical(index * np.ones((n,)), nb_classes): n one-hot rows.
to_categorical(index, n, nb_classes) ==
    [r \in 1..n |-> [c \in 1..nb_classes |-> IF c = index + 1 THEN 1 ELSE 0]]

(***************************************************************************)
(* The sequence scanner.                                                   *)
(***************************************************************************)
\* The body of the scanner's nested loop, from position k of the
\* speakers x basenames iteration on: longest_sequence is replaced when the
\* lf0 stream of the file is longer.
RECURSIVE ScanFrom(_, _, _, _, _)
ScanFrom(fs, speakers_list, basenames_list, k, longest_sequence) ==
    LET nb == Len(basenames_list)
    IN IF k > Len(speakers_list) * nb
       THEN longest_sequence
       ELSE LET speaker == speakers_list[((k - 1) \div nb) + 1]
                basename == basenames_list[((k - 1) % nb) + 1]
                params == parse_file(fs[<<speaker, basename>>], "lf0")
            IN ScanFrom(fs, speakers_list, basenames_list, k + 1,
                        IF Shape(params, 1)[1] > longest_sequence
                        THEN Shape(params, 1)[1]
                        ELSE longest_sequence)

\* Variant: the return sits inside the loops, so the scan ends after the
\* first file.
find_longest_sequence_EarlyReturn(fs, speakers_list, basenames_list) ==
    IF Len(speakers_list) = 0 \/ Len(basenames_list) = 0
    THEN 0
    ELSE Len(parse_file(fs[<<speakers_list[1], basenames_list[1]>>], "lf0"))

find_longest_sequence(fs, speakers_list, basenames_list) ==
    ScanFrom(fs, speakers_list, basenames_list, 1, 0)

(***************************************************************************)
(* The pair builder.                                                       *)
(***************************************************************************)
\* The voiced flag: 1 - kronecker_delta of the raw voicing, per frame.
VoicedFlag(vf) == [i \in 1..Len(vf) |-> <<1 - kronecker_delta(vf[i][1])>>]

\* Variant: row 0 is set instead of row -1.
EosFlag_FirstRow(vf) == [i \in 1..Len(vf) |-> <<IF i = 1 THEN 1 ELSE 0>>]

\* The end-of-sequence flag: np.zeros(vf.shape) with row -1 set to 1.
\* (On an empty array the assignment raises IndexError: see BuildError.)
EosFlag(vf) == [i \in 1..Len(vf) |-> <<IF i = Len(vf) THEN 1 ELSE 0>>]

\* Variant: the source mask padded behind, like the target mask.
SourceMask_BackPadded(longest_seq, source_mcp) ==
    Ones(Len(source_mcp), 1) \o Zeros(longest_seq - Len(source_mcp), 1)

\* The source mask: zeros for the padding, then ones for the mcp frames.
SourceMask(longest_seq, source_mcp) ==
    Zeros(longest_seq - Len(source_mcp), 1) \o Ones(Len(source_mcp), 1)

\* Variant: the target mask padded in front, like the source mask.
TargetMask_FrontPadded(longest_seq, target_mcp) ==
    Zeros(longest_seq - Len(target_mcp), 1) \o Ones(Len(target_mcp), 1)

\* The target mask: ones for the mcp frames, then zeros for the padding.
TargetMask(longest_seq, target_mcp) ==
    Ones(Len(target_mcp), 1) \o Zeros(longest_seq - Len(target_mcp), 1)

\* The first exception the builder raises on these inputs, in the order of
\* its statements, or "none".
BuildError(src, src_index, trg, trg_index, longest_seq) ==
    LET source_vf == parse_file(src, "vf")
        target_vf == parse_file(trg, "vf")
        source_mcp == parse_file(src, "mcp")
        target_mcp == parse_file(trg, "mcp")
    IN \* assert source_vf.shape == source_f0.shape
       IF Shape(source_vf, 1) # Shape(parse_file(src, "lf0"), 1)
       THEN "AssertionError"
       \* assert target_vf.shape == target_f0.shape
       ELSE IF Shape(target_vf, 1) # Shape(parse_file(trg, "lf0"), 1)
       THEN "AssertionError"
       \* src_eos_flag[-1, :] = 1 on an array without rows
       ELSE IF Len(source_vf) = 0 \/ Len(target_vf) = 0
       THEN "IndexError"
       \* to_categorical: class index outside the nb_classes columns
       ELSE IF src_index >= NbClasses \/ trg_index >= NbClasses
       THEN "IndexError"
       \* np.zeros of a negative row count, in either mask
       ELSE IF longest_seq - Len(source_mcp) < 0
               \/ longest_seq - Len(target_mcp) < 0
       THEN "ValueError"
       \* assert source_mask.shape == target_mask.shape
       ELSE IF Shape(SourceMask(longest_seq, source_mcp), 1)
               # Shape(TargetMask(longest_seq, target_mcp), 1)
       THEN "AssertionError"
       \* zero_pad_params of a stream longer than longest_seq
       ELSE IF \E x \in {parse_file(src, "lf0_i"), parse_file(src, "vf_i"),
                         source_vf,
                         parse_file(trg, "lf0_i"), parse_file(trg, "vf_i"),
                         target_vf} : longest_seq - Len(x) < 0
       THEN "ValueError"
       ELSE "none"

\* The four outputs of a call that raises nothing.
BuildOutputs(src, src_index, trg, trg_index, longest_seq) ==
    LET source_mcp == parse_file(src, "mcp")
        source_f0_i == parse_file(src, "lf0_i")
        source_vf == parse_file(src, "vf")
        source_vf_i == parse_file(src, "vf_i")
        target_mcp == parse_file(trg, "mcp")
        target_f0_i == parse_file(trg, "lf0_i")
        target_vf == parse_file(trg, "vf")
        target_vf_i == parse_file(trg, "vf_i")
        source_voiced == VoicedFlag(source_vf)
        target_voiced == VoicedFlag(target_vf)
        src_eos_flag == EosFlag(source_vf)
        trg_eos_flag == EosFlag(target_vf)
        src_spk_index == to_categorical(src_index, Len(source_vf), NbClasses)
        trg_spk_index == to_categorical(trg_index, Len(target_vf), NbClasses)
        s1 == zero_pad_params(longest_seq, "src", source_mcp, McpWidth)
        s2 == zero_pad_params(longest_seq, "src", source_f0_i, 1)
        s3 == zero_pad_params(longest_seq, "src", source_vf_i, 1)
        s4 == zero_pad_params(longest_seq, "src", source_voiced, 1)
        s5 == zero_pad_params(longest_seq, "src", src_eos_flag, 1)
        s6 == zero_pad_params(longest_seq, "src", src_spk_index, NbClasses)
        s7 == zero_pad_params(longest_seq, "src", trg_spk_index, NbClasses)
        t1 == zero_pad_params(longest_seq, "trg", target_mcp, McpWidth)
        t2 == zero_pad_params(longest_seq, "trg", target_f0_i, 1)
        t3 == zero_pad_params(longest_seq, "trg", target_vf_i, 1)
        t4 == zero_pad_params(longest_seq, "trg", target_voiced, 1)
        t5 == zero_pad_params(longest_seq, "trg", trg_eos_flag, 1)
    IN [ok |-> TRUE,
        error |-> "none",
        source_params |->
            [r \in 1..longest_seq |->
                s1[r] \o s2[r] \o s3[r] \o s4[r] \o s5[r] \o s6[r] \o s7[r]],
        source_mask |-> SourceMask(longest_seq, source_mcp),
        target_params |->
            [r \in 1..longest_seq |->
                t1[r] \o t2[r] \o t3[r] \o t4[r] \o t5[r]],
        target_mask |-> TargetMask(longest_seq, target_mcp),
        \* the flags before padding, kept for inspection
        src_eos_flag |-> src_eos_flag,
        trg_eos_flag |-> trg_eos_flag]

\* seq2seq_build_file_table: its outputs, or the exception it raises.
seq2seq_build_file_table(src, src_index, trg, trg_index, longest_seq) ==
    LET e == BuildError(src, src_index, trg, trg_index, longest_seq)
    IN IF e = "none"
       THEN BuildOutputs(src, src_index, trg, trg_index, longest_seq)
       ELSE [ok |-> FALSE, error |-> e]

(***************************************************************************)
(* The corpus assembler: statistics and loop.                              *)
(***************************************************************************)
SetMax(S) == CHOOSE m \in S : \A x \in S : m >= x

SetMin(S) == CHOOSE m \in S : \A x \in S : m <= x

\* The rows np.ma.array leaves unmasked: mask = 1 - np.repeat(aux_src_mask).
UnmaskedRows(aux_src_mask) ==
    {r \in 1..Len(aux_src_mask) : 1 - aux_src_mask[r][1] = 0}

\* np.ma.max(masked_params, axis=0) over aux_src_params[:, 0:42]; a column
\* without unmasked rows reduces to the fill value.
MaMax(aux_src_params, aux_src_mask) ==
    LET rows == UnmaskedRows(aux_src_mask)
    IN [c \in 1..StatCols |->
          IF rows = {} THEN MaFillValue
          ELSE SetMax({aux_src_params[r][c] : r \in rows})]

\* np.ma.min(masked_params, axis=0).
MaMin(aux_src_params, aux_src_mask) ==
    LET rows == UnmaskedRows(aux_src_mask)
    IN [c \in 1..StatCols |->
          IF rows = {} THEN MaFillValue
          ELSE SetMin({aux_src_params[r][c] : r \in rows})]

\* Variant: the row is overwritten with the pair's maximum, the running
\* value is not folded in.
UpdateSpkMax_Overwrite(mat, src_index, aux_src_params, aux_src_mask) ==
    [mat EXCEPT ![src_index + 1] = MaMax(aux_src_params, aux_src_mask)]

\* spk_max[src_index, :] = np.maximum(spk_max[src_index, :], np.ma.max(...))
\* (row src_index of the source is row src_index + 1 here).
UpdateSpkMax(mat, src_index, aux_src_params, aux_src_mask) ==
    [mat EXCEPT ![src_index + 1] =
        Maximum(@, MaMax(aux_src_params, aux_src_mask))]

\* Variant: the update is broadcast over every row, spk_min[:, :] = ...
UpdateSpkMin_AllRows(mat, src_index, aux_src_params, aux_src_mask) ==
    [r \in 1..Len(mat) |->
        Minimum(mat[r], MaMin(aux_src_params, aux_src_mask))]

\* spk_min[src_index, :] = np.minimum(spk_min[src_index, :], np.ma.min(...))
UpdateSpkMin(mat, src_index, aux_src_params, aux_src_mask) ==
    [mat EXCEPT ![src_index + 1] =
        Minimum(@, MaMin(aux_src_params, aux_src_mask))]

\* Variant: the loops leave out the pairs of a speaker with itself.
LoopNext_SkipSelf(si, ti, bi, ns, nb) ==
    LET n == IF bi + 1 < nb THEN <<si, ti, bi + 1>>
             ELSE IF ti + 1 < ns THEN <<si, ti + 1, 0>>
             ELSE <<si + 1, 0, 0>>
    IN IF n[1] < ns /\ n[2] = n[1] /\ n[3] = 0
       THEN IF n[2] + 1 < ns THEN <<n[1], n[2] + 1, 0>>
            ELSE <<n[1] + 1, 0, 0>>
       ELSE n

\* The next position of the three nested loops (speakers, speakers,
\* basenames); the outer index reaches ns when the loops are over.
LoopNext(si, ti, bi, ns, nb) ==
    IF bi + 1 < nb THEN <<si, ti, bi + 1>>
    ELSE IF ti + 1 < ns THEN <<si, ti + 1, 0>>
    ELSE <<si + 1, 0, 0>>

(***************************************************************************)
(* The datatable store: an HDF5 dataset or attribute keeps an array as its *)
(* shape and its elements in row-major order.                              *)
(***************************************************************************)
RECURSIVE Ravel(_)
\* The concatenation of the elements of a sequence of sequences.
Ravel(a) == IF a = <<>> THEN <<>> ELSE Head(a) \o Ravel(Tail(a))

\* The elements of a 2-D and of a 3-D array in row-major order.
Ravel2(a) == Ravel(a)

Ravel3(a) == Ravel([i \in 1..Len(a) |-> Ravel(a[i])])

\* The 2-D array of n2 columns over the elements flat.
Reshape2(flat, n2) ==
    [i \in 1..(Len(flat) \div n2) |->
        [j \in 1..n2 |-> flat[(i - 1) * n2 + j]]]

\* The 3-D array of shape n1 x n2 x n3 over the elements flat.
Reshape3(flat, n1, n2, n3) ==
    [i \in 1..n1 |->
        [j \in 1..n2 |->
            [k \in 1..n3 |-> flat[((i - 1) * n2 + (j - 1)) * n3 + k]]]]

\* f.create_dataset(name, data=a) / f.attrs.create(name, a) of an array.
Stored2(a, n2) == [shape |-> <<Len(a), n2>>, data |-> Ravel2(a)]

Stored3(a, n2, n3) == [shape |-> <<Len(a), n2, n3>>, data |-> Ravel3(a)]

\* dataset[:, :] and attrs.get: the whole array, of the stored shape.
ReadArray(d) ==
    IF Len(d.shape) = 2
    THEN Reshape2(d.data, d.shape[2])
    ELSE Reshape3(d.data, d.shape[1], d.shape[2], d.shape[3])

\* The container seq2seq_save_datatable writes.
H5Write(t) ==
    [attrs |->
        [max_seq_length |-> [dtype |-> "int", value |-> t.max_seq_length],
         speakers_max |-> Stored2(t.speakers_max, StatCols),
         speakers_min |-> Stored2(t.speakers_min, StatCols)],
     src_datatable |->
        Stored3(t.source_datatable, t.max_seq_length, SrcCols),
     trg_datatable |->
        Stored3(t.target_datatable, t.max_seq_length, TrgCols),
     src_mask |-> Stored2(t.source_masks, t.max_seq_length),
     trg_mask |-> Stored2(t.target_masks, t.max_seq_length)]

\* Variant: the target masks are read from the dataset of the source masks.
H5Read_MasksConfused(f) ==
    [source_datatable |-> ReadArray(f.src_datatable),
     source_masks |-> ReadArray(f.src_mask),
     target_datatable |-> ReadArray(f.trg_datatable),
     target_masks |-> ReadArray(f.src_mask),
     max_seq_length |-> f.attrs.max_seq_length.value,
     speakers_max |-> ReadArray(f.attrs.speakers_max),
     speakers_min |-> ReadArray(f.attrs.speakers_min)]

\* The 7-tuple seq2seq2_load_datatable reads back.
H5Read(f) ==
    [source_datatable |-> ReadArray(f.src_datatable),
     source_masks |-> ReadArray(f.src_mask),
     target_datatable |-> ReadArray(f.trg_datatable),
     target_masks |-> ReadArray(f.trg_mask),
     max_seq_length |-> f.attrs.max_seq_length.value,
     speakers_max |-> ReadArray(f.attrs.speakers_max),
     speakers_min |-> ReadArray(f.attrs.speakers_min)]

(***************************************************************************)
(* The corpora the model runs on.                                          *)
(***************************************************************************)
\* The speaker names a speakers list draws its lines from.
Names == {"A", "B"}

\* A speaker's parameter level; -3 makes every sample negative, 0 makes
\* every sample positive, -1 gives samples 0 and 1.
Levels == {-3, -1, 0}

\* The sample at frame r, column c of the file of basename b.
SampleVal(level, b, r, c) == level + 1 + ((b + r + c) % 2)

\* The frame counts of a file whose streams agree on n frames.
Agreeing(n) == [mcp |-> n, lf0 |-> n, lf0_i |-> n, vf |-> n, vf_i |-> n]

\* The frame counts in which at most one stream departs from the others.
DeviantLens ==
    {[Agreeing(n) EXCEPT ![s] = d] :
        n \in 0..MaxFrames, d \in 0..MaxFrames,
        s \in {"mcp", "lf0", "lf0_i", "vf", "vf_i"}}

\* The file of basename b with the given frame counts, level and set of
\* unvoiced frames (raw voicing exactly 0).
MkFile(lens, level, b, unv) ==
    [mcp |-> [r \in 1..lens.mcp |->
                 [c \in 1..McpWidth |-> SampleVal(level, b, r, c)]],
     lf0 |-> [r \in 1..lens.lf0 |-> <<SampleVal(level, b, r, McpWidth + 1)>>],
     lf0_i |-> [r \in 1..lens.lf0_i |->
                 <<SampleVal(level, b, r, McpWidth + 1)>>],
     vf |-> [r \in 1..lens.vf |->
                 <<IF r \in unv THEN 0 ELSE 1 + ((b + r) % 2)>>],
     vf_i |-> [r \in 1..lens.vf_i |->
                 <<SampleVal(level, b, r, McpWidth + 2)>>]]

(***************************************************************************)
(* State.                                                                  *)
(***************************************************************************)
VARIABLES
    files,          \* <<speaker, basename>> -> the file's five streams
    speakers,       \* the lines of speakers.list
    basenames,      \* the lines of seq2seq_basenames.list
    pc,             \* "start", "build", "stack", "save", "load", "done", "failed"
    error,          \* the exception that ended the run, or "none"
    longest_seq,
    src_index, trg_index, base_index,   \* the positions of the three loops
    src_datatable, trg_datatable, src_masks, trg_masks,
    spk_max, spk_min,
    builder_calls,  \* the calls of the pair builder, as the progress line prints them
    stat_folds,     \* the source index of every statistics update
    last,           \* the latest call of the pair builder and what it gave
    result,         \* the 7-tuple the assembler returns
    h5file,         \* the container written
    loaded          \* the 7-tuple read back

vars == <<files, speakers, basenames, pc, error, longest_seq, src_index,
          trg_index, base_index, src_datatable, trg_datatable, src_masks,
          trg_masks, spk_max, spk_min, builder_calls, stat_folds, last,
          result, h5file, loaded>>

\* The state in which seq2seq_save_datatable is entered on a data root.
Entered(sp, bn, fs) ==
    /\ files = fs
    /\ speakers = sp
    /\ basenames = bn
    /\ pc = "start"
    /\ error = "none"
    /\ longest_seq = 0
    /\ src_index = 0
    /\ trg_index = 0
    /\ base_index = 0
    /\ src_datatable = <<>>
    /\ trg_datatable = <<>>
    /\ src_masks = <<>>
    /\ trg_masks = <<>>
    /\ spk_max = <<>>
    /\ spk_min = <<>>
    /\ builder_calls = <<>>
    /\ stat_folds = <<>>
    /\ last = <<>>
    /\ result = <<>>
    /\ h5file = <<>>
    /\ loaded = <<>>

\* The frame count of utterance b of a speaker whose first utterance has n
\* frames: the utterances of a speaker differ in length.
FramesOf(n, b) == ((n + b - 2) % MaxFrames) + 1

\* Corpora whose files are well formed; the speakers list (which may name a
\* speaker twice, or be empty), the number of basenames, the frame counts
\* and the levels of the speakers vary.
Init ==
    \E ns \in 0..MaxSpeakers, nb \in 1..MaxBasenames :
      \E sp \in [1..ns -> Names],
         n \in [Names -> 1..MaxFrames],
         lev \in [Names -> Levels] :
        Entered(sp, [i \in 1..nb |-> i],
                [k \in Names \X (1..nb) |->
                    MkFile(Agreeing(FramesOf(n[k[1]], k[2])),
                           lev[k[1]], k[2], {2})])

\* Two speakers, one utterance; in each file one stream may depart from the
\* frame count of the others.
InitBuild ==
    \E la \in DeviantLens, lb \in DeviantLens :
        Entered(<<"A", "B">>, <<1>>,
                [k \in Names \X {1} |->
                    MkFile(IF k[1] = "A" THEN la ELSE lb, 0, 1, {2})])

\* Two speakers, one utterance of 5 frames for A and of 8 frames for B.
InitScenario ==
    \E lev \in [Names -> Levels], ua \in SUBSET (1..5),
       ub \in {{}, {8}, {6, 7, 8}} :
        Entered(<<"A", "B">>, <<1>>,
                [k \in Names \X {1} |->
                    IF k[1] = "A"
                    THEN MkFile(Agreeing(5), lev["A"], 1, ua)
                    ELSE MkFile(Agreeing(8), lev["B"], 1, ub)])

(***************************************************************************)
(* Operations.                                                             *)
(***************************************************************************)
\* seq2seq_construct_datatable up to its loops: the lists are read, the
\* longest sequence found, the tables and the statistics initialised.
ConstructStart ==
    /\ pc = "start"
    /\ longest_seq' = find_longest_sequence(files, speakers, basenames)
    /\ src_datatable' = <<>>
    /\ trg_datatable' = <<>>
    /\ src_masks' = <<>>
    /\ trg_masks' = <<>>
    /\ spk_max' = [r \in 1..SpkRows |-> [c \in 1..StatCols |-> SpkMaxSeed]]
    /\ spk_min' = [r \in 1..SpkRows |-> [c \in 1..StatCols |-> SpkMinSeed]]
    /\ src_index' = 0
    /\ trg_index' = 0
    /\ base_index' = 0
    /\ pc' = IF Len(speakers) > 0 /\ Len(basenames) > 0
             THEN "build" ELSE "stack"
    /\ UNCHANGED <<files, speakers, basenames, error, builder_calls,
                   stat_folds, last, result, h5file, loaded>>

\* One pass of the body of the nested loops: the pair builder is called,
\* the statistics of the source speaker updated, the outputs appended.
BuildPair ==
    /\ pc = "build"
    /\ LET src_spk == speakers[src_index + 1]
           trg_spk == speakers[trg_index + 1]
           basename == basenames[base_index + 1]
           out == seq2seq_build_file_table(
                      files[<<src_spk, basename>>], src_index,
                      files[<<trg_spk, basename>>], trg_index, longest_seq)
           nxt == LoopNext(src_index, trg_index, base_index,
                           Len(speakers), Len(basenames))
       IN /\ builder_calls' =
                Append(builder_calls, <<src_index, trg_index, basename>>)
          /\ last' = [src_spk |-> src_spk, trg_spk |-> trg_spk,
                      basename |-> basename, src_index |-> src_index,
                      trg_index |-> trg_index, out |-> out]
          /\ IF out.ok
             THEN /\ spk_max' = UpdateSpkMax(spk_max, src_index,
                                     out.source_params, out.source_mask)
                  /\ spk_min' = UpdateSpkMin(spk_min, src_index,
                                     out.source_params, out.source_mask)
                  /\ stat_folds' = Append(stat_folds, src_index)
                  /\ src_datatable' = Append(src_datatable, out.source_params)
                  /\ trg_datatable' = Append(trg_datatable, out.target_params)
                  /\ src_masks' = Append(src_masks, out.source_mask)
                  /\ trg_masks' = Append(trg_masks, out.target_mask)
                  /\ src_index' = nxt[1]
                  /\ trg_index' = nxt[2]
                  /\ base_index' = nxt[3]
                  /\ pc' = IF nxt[1] < Len(speakers) THEN "build" ELSE "stack"
                  /\ UNCHANGED error
             ELSE /\ pc' = "failed"
                  /\ error' = out.error
                  /\ UNCHANGED <<spk_max, spk_min, stat_folds, src_datatable,
                                 trg_datatable, src_masks, trg_masks,
                                 src_index, trg_index, base_index>>
    /\ UNCHANGED <<files, speakers, basenames, longest_seq, result, h5file,
                   loaded>>

\* The return of seq2seq_construct_datatable: the lists become arrays, the
\* masks are reshaped to one row per pair.  reshape(-1, 0) of the empty
\* array (no pair was built) raises ValueError.
ConstructReturn ==
    /\ pc = "stack"
    /\ IF longest_seq = 0
       THEN /\ pc' = "failed"
            /\ error' = "ValueError"
            /\ UNCHANGED result
       ELSE /\ result' =
                [source_datatable |-> src_datatable,
                 source_masks |-> Reshape2(Ravel3(src_masks), longest_seq),
                 target_datatable |-> trg_datatable,
                 target_masks |-> Reshape2(Ravel3(trg_masks), longest_seq),
                 max_seq_length |-> longest_seq,
                 speakers_max |-> spk_max,
                 speakers_min |-> spk_min]
            /\ pc' = "save"
            /\ UNCHANGED error
    /\ UNCHANGED <<files, speakers, basenames, longest_seq, src_index,
                   trg_index, base_index, src_datatable, trg_datatable,
                   src_masks, trg_masks, spk_max, spk_min, builder_calls,
                   stat_folds, last, h5file, loaded>>

\* seq2seq_save_datatable after the assembler returned: the container is
\* written and the 7-tuple handed to the caller.
SaveDatatable ==
    /\ pc = "save"
    /\ h5file' = H5Write(result)
    /\ pc' = "load"
    /\ UNCHANGED <<files, speakers, basenames, error, longest_seq, src_index,
                   trg_index, base_index, src_datatable, trg_datatable,
                   src_masks, trg_masks, spk_max, spk_min, builder_calls,
                   stat_folds, last, result, loaded>>

\* seq2seq2_load_datatable on the container written.
LoadDatatable ==
    /\ pc = "load"
    /\ loaded' = H5Read(h5file)
    /\ pc' = "done"
    /\ UNCHANGED <<files, speakers, basenames, error, longest_seq, src_index,
                   trg_index, base_index, src_datatable, trg_datatable,
                   src_masks, trg_masks, spk_max, spk_min, builder_calls,
                   stat_folds, last, result, h5file>>

Next ==
    \/ ConstructStart
    \/ BuildPair
    \/ ConstructReturn
    \/ SaveDatatable
    \/ LoadDatatable

Spec == Init /\ [][Next]_vars

SpecBuild == InitBuild /\ [][Next]_vars

SpecScenario == InitScenario /\ [][Next]_vars

(***************************************************************************)
(* Properties of the pair builder, checked under SpecBuild.                *)
(***************************************************************************)
\* The latest call of the pair builder returned its four outputs.
Built == Len(builder_calls) > 0 /\ last.out.ok

\* The files of the source and of the target of the latest call.
SrcFile == files[<<last.src_spk, last.basename>>]

TrgFile == files[<<last.trg_spk, last.basename>>]

\* The longest lf0 stream of the corpus, over every speaker of the list
\* and every basename.
CorpusLongest ==
    SetMax({0} \cup {Len(files[<<speakers[i], basenames[j]>>].lf0) :
                       i \in 1..Len(speakers), j \in 1..Len(basenames)})

\* The rows of a mask that hold v.
RowsWith(mask, v) == {i \in 1..Len(mask) : mask[i][1] = v}

\* C2: for every pair the builder returns, the source mask and the target
\* mask have the same number of rows, which is the longest-sequence length
\* the scanner found, itself the longest lf0 stream of the whole corpus.
C2_MaskRows ==
    Built =>
        /\ Len(last.out.source_mask) = Len(last.out.target_mask)
        /\ Len(last.out.source_mask) = longest_seq
        /\ longest_seq = CorpusLongest

\* A pair was built whose two sides differ in length, one of them padded.
C2_Witness ==
    /\ Built
    /\ Len(SrcFile.mcp) # Len(TrgFile.mcp)
    /\ Len(SrcFile.mcp) < longest_seq

\* C3: for every pair the builder returns, the source mask is zeros then
\* ones, the target mask is ones then zeros, and the number of ones of each
\* is the frame count of that side's utterance (the rows of its spectral
\* stream, which the builder takes as the length of the utterance).
C3_MaskPadding ==
    Built =>
        /\ \A i \in 1..longest_seq :
              /\ last.out.source_mask[i][1] \in {0, 1}
              /\ last.out.target_mask[i][1] \in {0, 1}
        /\ \A i, j \in 1..longest_seq :
              i < j => /\ ~(last.out.source_mask[i][1] = 1
                            /\ last.out.source_mask[j][1] = 0)
                       /\ ~(last.out.target_mask[i][1] = 0
                            /\ last.out.target_mask[j][1] = 1)
        /\ Cardinality(RowsWith(last.out.source_mask, 1)) = Len(SrcFile.mcp)
        /\ Cardinality(RowsWith(last.out.target_mask, 1)) = Len(TrgFile.mcp)

\* A pair was built in which both sides are real utterances shorter than
\* the longest sequence, so both masks hold zeros and ones.
C3_Witness ==
    /\ Built
    /\ RowsWith(last.out.source_mask, 0) # {}
    /\ RowsWith(last.out.source_mask, 1) # {}
    /\ RowsWith(last.out.target_mask, 0) # {}
    /\ RowsWith(last.out.target_mask, 1) # {}

\* The raw and interpolated lf0 streams, the raw and interpolated voicing
\* streams, or the raw voicing and raw lf0 streams of a file differ in shape.
ShapeMismatch(f) ==
    \/ Shape(f.lf0, 1) # Shape(f.lf0_i, 1)
    \/ Shape(f.vf, 1) # Shape(f.vf_i, 1)
    \/ Shape(f.vf, 1) # Shape(f.lf0, 1)

\* C6: whenever the source file or the target file of a call has such a
\* shape mismatch, the pair builder fails and returns no outputs.  (The
\* kind of failure is left open: a violation is a call that returned its
\* outputs on mismatched streams.)
C6_FailFast ==
    Len(builder_calls) > 0 =>
        ((ShapeMismatch(SrcFile) \/ ShapeMismatch(TrgFile)) => ~last.out.ok)

\* The rows of column c of a matrix that hold 1.
OnesOfCol(m, c) == {i \in 1..Len(m) : m[i][c] = 1}

\* The end-of-sequence flag before padding is all zero but for one 1 on
\* its last row, the last frame of the voicing stream it is shaped on.
EosBeforePadding(eos, f) ==
    /\ Len(eos) = Len(f.vf)
    /\ Len(eos) >= 1
    /\ \A i \in 1..Len(eos) : eos[i][1] = IF i = Len(eos) THEN 1 ELSE 0

\* After padding, column EosCol holds a single 1, on the last row the mask
\* marks as real.
EosAfterPadding(params, mask) ==
    /\ RowsWith(mask, 1) # {}
    /\ OnesOfCol(params, EosCol) = {SetMax(RowsWith(mask, 1))}
    /\ \A i \in 1..Len(params) : params[i][EosCol] \in {0, 1}

\* The streams the builder reads the length of an utterance from agree:
\* the utterance has one true frame count.
OneFrameCount(f) == Len(f.mcp) = Len(f.vf)

Returned == pc \in {"save", "load", "done"}

\* The loops of the assembler are over.
LoopsOver == pc \in {"stack", "save", "load", "done"}

SeedMaxRow == [c \in 1..StatCols |-> SpkMaxSeed]

SeedMinRow == [c \in 1..StatCols |-> SpkMinSeed]

\* C1: loading the container that seq2seq_save_datatable wrote gives back
\* the 7-tuple the assembler produced: the four arrays and the three
\* attributes are identical.
C1_RoundTrip == pc = "done" => loaded = result

\* A table of several pairs with padded rows was saved and loaded.
C1_Witness ==
    /\ pc = "done"
    /\ Len(loaded.source_datatable) >= 4
    /\ loaded.max_seq_length >= 2
    /\ loaded.source_masks # loaded.target_masks

\* Column c (of the statistics) of frame r of a file: its spectral
\* coefficients, then its interpolated lf0, then its interpolated voicing.
StatSample(f, r, c) ==
    IF c <= McpWidth THEN f.mcp[r][c]
    ELSE IF c = McpWidth + 1 THEN f.lf0_i[r][1]
    ELSE f.vf_i[r][1]

\* The samples of column c over the real source frames of a speaker.
RealSamples(spk, c) ==
    UNION {{StatSample(files[<<spk, basenames[j]>>], r, c) :
               r \in 1..Len(files[<<spk, basenames[j]>>].mcp)} :
           j \in 1..Len(basenames)}

\* C4: in the matrices the assembler returns, the row of every listed
\* speaker holds, column by column, the true maximum and the true minimum
\* over the non-padded source frames of that speaker.
C4_TrueExtrema ==
    Returned =>
        \A s \in 1..Len(speakers), c \in 1..StatCols :
            /\ result.speakers_max[s][c] = SetMax(RealSamples(speakers[s], c))
            /\ result.speakers_min[s][c] = SetMin(RealSamples(speakers[s], c))

C10_RowLocality ==
    /\ [](Returned =>
            \A r \in 1..SpkRows :
                r > Len(speakers) =>
                    /\ result.speakers_max[r] = SeedMaxRow
                    /\ result.speakers_min[r] = SeedMinRow)
    /\ [][pc = "build" =>
            \A r \in 1..SpkRows :
                r # src_index + 1 =>
                    /\ spk_max'[r] = spk_max[r]
                    /\ spk_min'[r] = spk_min[r]]_vars

\* A pair between two different speakers was folded into the row of its
\* source while the row of its target still holds the seed.
C10_Witness ==
    /\ Built
    /\ last.src_index # last.trg_index
    /\ spk_min[last.src_index + 1] # SeedMinRow
    /\ spk_min[last.trg_index + 1] = SeedMinRow

(***************************************************************************)
(* The scenario of two speakers, A of 5 frames and B of 8 frames, checked  *)
(* under SpecScenario.                                                     *)
(***************************************************************************)
\* The latest call built the pair of source speaker a and target speaker b.
BuiltPair(a, b) == Built /\ last.src_spk = a /\ last.trg_spk = b

\* Rows lo..hi of a matrix are zero in the voiced and end-of-sequence
\* columns.
FlagRowsZero(m, lo, hi) ==
    \A r \in lo..hi : m[r][VoicedCol] = 0 /\ m[r][EosCol] = 0

\* The mask of z zeros followed by o ones, and of o ones followed by z zeros.
ZerosThenOnes(z, o) == Zeros(z, 1) \o Ones(o, 1)

OnesThenZeros(o, z) == Ones(o, 1) \o Zeros(z, 1)

\* C7 as stated: longest_seq resolves to 8, and the pair (A as source, B as
\* target) has a source mask of 3 zeros then 5 ones and a target matrix
\* whose last 3 rows are zero in the voiced and end-of-sequence columns.
C7_AsStated ==
    /\ pc # "start" => longest_seq = 8
    /\ BuiltPair("A", "B") =>
          /\ last.out.source_mask = ZerosThenOnes(3, 5)
          /\ FlagRowsZero(last.out.target_params, 6, 8)

\* C7 amended: longest_seq resolves to 8; the pair (A as source, B as
\* target) has a source mask of 3 zeros then 5 ones and an unpadded target
\* (mask of 8 ones, end-of-sequence flag 1 on row 8 only); it is the pair
\* (B as source, A as target) whose target matrix has its last 3 rows zero
\* in the voiced and end-of-sequence columns, as its target mask of 5 ones
\* then 3 zeros marks.
C7_Scenario ==
    /\ pc # "start" => longest_seq = 8
    /\ BuiltPair("A", "B") =>
          /\ last.out.source_mask = ZerosThenOnes(3, 5)
          /\ last.out.target_mask = OnesThenZeros(8, 0)
          /\ OnesOfCol(last.out.target_params, EosCol) = {8}
    /\ BuiltPair("B", "A") =>
          /\ last.out.target_mask = OnesThenZeros(5, 3)
          /\ FlagRowsZero(last.out.target_params, 6, 8)
          /\ OnesOfCol(last.out.target_params, EosCol) = {5}
    /\ Len(builder_calls) > 0 => last.out.ok

\* Both mixed pairs of the scenario were built, A's fifth frame voiced.
C7_Witness ==
    /\ BuiltPair("B", "A")
    /\ Len(builder_calls) = 3
    /\ last.out.target_params[5][VoicedCol] = 1
    /\ src_masks[2] = ZerosThenOnes(3, 5)

=============================================================================
